---- MODULE Spec2Model ----
(***************************************************************************)
(* Model of the enhanced calculator's history engine: the Calculator of    *)
(* app/calculator.py with its memento caretaker (app/calculator_memento.py)*)
(* the operation registry (app/operations.py) and the observers.           *)
(*                                                                         *)
(* A Decimal is a record [kind |-> "dec", m |-> coefficient, e |-> digits  *)
(* after the point, hi |-> multiple of 6 * 10^11], its value being         *)
(* hi * 6 * 10^11 + m / 10^e.  hi is 0 for the values the integers of the  *)
(* model checker hold; hi # 0 stands for a value of 12 or 13 integer       *)
(* digits, with m / 10^e below 1 in magnitude and of the sign of hi.  add, *)
(* subtract, rounding, display and parsing carry hi; the other operations  *)
(* are modelled for hi = 0.  A non-numeric operand is the record           *)
(* NonNumeric.  The raw result of an operation is a rational               *)
(* [num, den, hi]; Decimal's 28-digit working precision is far wider than  *)
(* the operands drawn here, so the raw results of the exact operations are *)
(* exact.                                                                  *)
(***************************************************************************)
EXTENDS Integers, Sequences, FiniteSets, TLC

\* ------------------------------------------------------------------------
\* Configuration (app/calculator_config.py)
\* ------------------------------------------------------------------------
\* CONFIG.max_history_size (CALCULATOR_MAX_HISTORY_SIZE), here a small cap
MaxHistorySize == 2

\* CONFIG.precision (CALCULATOR_PRECISION), number of fractional digits
Precision == 4

\* CONFIG.auto_save (CALCULATOR_AUTO_SAVE)
AutoSave == TRUE

\* ------------------------------------------------------------------------
\* Bounds of the exploration
\* ------------------------------------------------------------------------
\* successful calculate calls per behaviour
MaxCalls == 3

\* the integer operands of the operation table go from -MaxOperand to
\* MaxOperand
MaxOperand == 3

\* depth of the undo stack beyond which clear is not called
MaxUndo == 3

\* load_history calls per behaviour
MaxLoads == 1

\* ------------------------------------------------------------------------
\* Decimal arithmetic
\* ------------------------------------------------------------------------
RECURSIVE Pow(_, _)
Pow(b, n) == IF n = 0 THEN 1 ELSE b * Pow(b, n - 1)

Abs(x) == IF x < 0 THEN -x ELSE x

Min2(x, y) == IF x <= y THEN x ELSE y

Dec(m, e) == [kind |-> "dec", m |-> m, e |-> e, hi |-> 0]

\* the Decimal hi * 6 * 10^11 + m / 10^e
BigDec(hi, m, e) == [kind |-> "dec", m |-> m, e |-> e, hi |-> hi]

NonNumeric == [kind |-> "str", m |-> 0, e |-> 0, hi |-> 0]

Rat(n, d) == [num |-> n, den |-> d, hi |-> 0]

\* the rational value of a Decimal
ToRat(x) == [num |-> x.m, den |-> Pow(10, x.e), hi |-> x.hi]

IsZero(x) == x.m = 0 /\ x.hi = 0

\* Decimal.__eq__: equality of the values, whatever the exponents
DecEq(x, y) == x.hi = y.hi /\ x.m * Pow(10, y.e) = y.m * Pow(10, x.e)

\* n / d for n >= 0 and d > 0, rounded to the nearest integer, ties to even
RoundHalfEven(n, d) ==
    LET q == n \div d
        r == n % d
    IN  IF 2 * r > d \/ (2 * r = d /\ q % 2 = 1) THEN q + 1 ELSE q

\* floor division and modulo truncating toward zero, as Decimal's // and %
TruncDiv(n, d) == LET q == Abs(n) \div Abs(d)
                  IN  IF (n < 0) = (d < 0) THEN q ELSE -q

TruncRem(n, d) == n - d * TruncDiv(n, d)

\* largest r in lo..hi with r^n <= x, by bisection (lo^n <= x < (hi+1)^n)
RECURSIVE IRoot(_, _, _, _)
IRoot(x, n, lo, hi) ==
    IF lo >= hi THEN lo
    ELSE LET mid == (lo + hi + 1) \div 2
         IN  IF Pow(mid, n) <= x THEN IRoot(x, n, mid, hi)
             ELSE IRoot(x, n, lo, mid - 1)

\* ------------------------------------------------------------------------
\* Operations (app/operations.py)
\* ------------------------------------------------------------------------
Ok(r) == [kind |-> "ok", raw |-> r]

Raise(k) == [kind |-> k, raw |-> Rat(0, 1)]

\* Operation._num: the isinstance check
IsNum(v) == v.kind = "dec"

AddApply(a, b) ==
    IF ~IsNum(a) \/ ~IsNum(b) THEN Raise("ValidationError")
    ELSE LET x == ToRat(a)  y == ToRat(b)
         IN  Ok([Rat(x.num * y.den + y.num * x.den, x.den * y.den)
                    EXCEPT !.hi = x.hi + y.hi])

SubtractApply(a, b) ==
    IF ~IsNum(a) \/ ~IsNum(b) THEN Raise("ValidationError")
    ELSE LET x == ToRat(a)  y == ToRat(b)
         IN  Ok([Rat(x.num * y.den - y.num * x.den, x.den * y.den)
                    EXCEPT !.hi = x.hi - y.hi])

MultiplyApply(a, b) ==
    IF ~IsNum(a) \/ ~IsNum(b) THEN Raise("ValidationError")
    ELSE LET x == ToRat(a)  y == ToRat(b)
         IN  Ok(Rat(x.num * y.num, x.den * y.den))

DivideApply(a, b) ==
    IF ~IsNum(b) THEN Raise("ValidationError")
    ELSE IF IsZero(b) THEN Raise("ValidationError")
    ELSE IF ~IsNum(a) THEN Raise("ValidationError")
    ELSE LET x == ToRat(a)  y == ToRat(b)
             s == IF y.num < 0 THEN -1 ELSE 1
         IN  Ok(Rat(s * x.num * y.den, s * y.num * x.den))

\* a ** b for an integral exponent; 0 ** 0 and 0 ** negative signal
\* decimal.InvalidOperation / DivisionByZero, which are ArithmeticErrors
PowerApply(a, b) ==
    IF ~IsNum(a) \/ ~IsNum(b) THEN Raise("ValidationError")
    ELSE IF IsZero(a) /\ b.m <= 0 THEN Raise("ArithmeticError")
    ELSE LET x == ToRat(a)
             n == Abs(b.m)
             s == IF x.num < 0 /\ n % 2 = 1 THEN -1 ELSE 1
         IN  IF b.m >= 0 THEN Ok(Rat(Pow(x.num, n), Pow(x.den, n)))
             ELSE Ok(Rat(s * Pow(x.den, n), s * Pow(x.num, n)))

\* a ** (1 / degree) for a degree in 1..2 and a small integral radicand
\* a >= 0: the root truncated to the grid of half units of the last
\* displayed digit, on which every rounding boundary lies
RootApply(a, b) ==
    IF ~IsNum(b) THEN Raise("ValidationError")
    ELSE IF IsZero(b) THEN Raise("ValidationError")
    ELSE IF ~IsNum(a) THEN Raise("ValidationError")
    ELSE LET g == 2 * Pow(10, Precision)
             x == a.m * Pow(g, b.m)
         IN  Ok(Rat(IRoot(x, b.m, 0, IF b.m = 1 THEN x ELSE 46340), g))

ModulusApply(a, b) ==
    IF ~IsNum(a) \/ ~IsNum(b) THEN Raise("ValidationError")
    ELSE IF IsZero(b) THEN Raise("ArithmeticError")
    ELSE LET x == ToRat(a)  y == ToRat(b)
         IN  Ok(Rat(TruncRem(x.num * y.den, y.num * x.den), x.den * y.den))

\* int_divide without the test of the divisor: Decimal's // signals
\* DivisionByZero or InvalidOperation on its own
IntDivideApplyUnchecked(a, b) ==
    IF ~IsNum(a) \/ ~IsNum(b) THEN Raise("ValidationError")
    ELSE IF IsZero(b) THEN Raise("ArithmeticError")
    ELSE LET x == ToRat(a)  y == ToRat(b)
         IN  Ok(Rat(TruncDiv(x.num * y.den, y.num * x.den), 1))

IntDivideApply(a, b) ==
    IF ~IsNum(b) THEN Raise("ValidationError")
    ELSE IF IsZero(b) THEN Raise("ValidationError")
    ELSE IF ~IsNum(a) THEN Raise("ValidationError")
    ELSE LET x == ToRat(a)  y == ToRat(b)
         IN  Ok(Rat(TruncDiv(x.num * y.den, y.num * x.den), 1))

PercentApply(a, b) ==
    IF ~IsNum(a) \/ ~IsNum(b) THEN Raise("ValidationError")
    ELSE IF IsZero(b) THEN Raise("ArithmeticError")
    ELSE LET x == ToRat(a)  y == ToRat(b)
             s == IF y.num < 0 THEN -1 ELSE 1
         IN  Ok(Rat(s * x.num * y.den * 100, s * y.num * x.den))

AbsDiffApply(a, b) ==
    IF ~IsNum(a) \/ ~IsNum(b) THEN Raise("ValidationError")
    ELSE LET x == ToRat(a)  y == ToRat(b)
         IN  Ok(Rat(Abs(x.num * y.den - y.num * x.den), x.den * y.den))

\* the keys of _OPERATION_MAP
OperationMap == {"add", "subtract", "multiply", "divide", "power", "root",
                 "modulus", "int_divide", "percent", "abs_diff"}

\* str.lower on the operation names a caller passes
Lower(name) ==
    CASE name = "ADD" -> "add"
      [] name = "Divide" -> "divide"
      [] name = "Root" -> "root"
      [] OTHER -> name

\* get_operation followed by op.apply
Apply(name, a, b) ==
    LET key == Lower(name)
    IN  CASE key \notin OperationMap -> Raise("OperationError")
          [] key = "add" -> AddApply(a, b)
          [] key = "subtract" -> SubtractApply(a, b)
          [] key = "multiply" -> MultiplyApply(a, b)
          [] key = "divide" -> DivideApply(a, b)
          [] key = "power" -> PowerApply(a, b)
          [] key = "root" -> RootApply(a, b)
          [] key = "modulus" -> ModulusApply(a, b)
          [] key = "int_divide" -> IntDivideApply(a, b)
          [] key = "percent" -> PercentApply(a, b)
          [] key = "abs_diff" -> AbsDiffApply(a, b)

\* Calculator._round: quantize to Precision digits, ROUND_HALF_UP (ties away
\* from zero)
Round(r) ==
    LET p == Pow(10, Precision)
        q == (2 * Abs(r.num) * p + r.den) \div (2 * r.den)
    IN  BigDec(r.hi, IF r.num < 0 THEN -q ELSE q, Precision)

\* ------------------------------------------------------------------------
\* History items, snapshots, persistence format
\* ------------------------------------------------------------------------
\* HistoryItem = (operation, a, b, result, timestamp)
HistoryItem(op, a, b, res, ts) ==
    [op |-> op, a |-> a, b |-> b, result |-> res, ts |-> ts]

\* Calculator._snapshot: CalculatorMemento(tuple(self._history)), an
\* immutable copy of the sequence
Snapshot(h) == h

\* CalculatorMemento.get_state, copied into a new list by _restore
GetState(m) == m

\* Calculator._display: an integral value is written without a fraction,
\* any other value quantized to Precision digits, ROUND_HALF_UP
Display(val) ==
    LET p == Pow(10, val.e)
    IN  IF val.m % p = 0 THEN BigDec(val.hi, val.m \div p, 0)
        ELSE IF val.e <= Precision
             THEN BigDec(val.hi, val.m * Pow(10, Precision - val.e), Precision)
             ELSE Round(ToRat(val))

\* one row of the CSV written by save_history
Row(item) ==
    [operation |-> item.op, a |-> Display(item.a), b |-> Display(item.b),
     result |-> Display(item.result), timestamp |-> item.ts]

NoItem == HistoryItem("", NonNumeric, NonNumeric, Dec(0, 0), 0)

NoFile == [exists |-> FALSE, rows |-> << >>]

\* the file DataFrame.to_csv leaves behind
CsvOf(h) == [exists |-> TRUE, rows |-> [i \in 1..Len(h) |-> Row(h[i])]]

\* the float64 values of 12 integer digits (hi = 1, between 2^39 and 2^40)
\* lie 2^-13 apart, those of 13 integer digits (between 2^40 and 2^41)
\* 2^-12; 6 * 10^11 is a multiple of both
UlpInv(hi) == IF Abs(hi) = 1 THEN 8192 ELSE 4096

\* the float64 nearest to the cell, as its fractional part counted in ulps
ToFloat(d) == RoundHalfEven(Abs(d.m) * UlpInv(d.hi), Pow(10, d.e))

\* repr of a float: the fewest digits that read back as the same float n
\* (in ulps of 1 / u), from j fractional digits on
RECURSIVE Shortest(_, _, _)
Shortest(n, u, j) ==
    LET q == RoundHalfEven(n * Pow(10, j), u)
    IN  IF RoundHalfEven(q * u, Pow(10, j)) = n THEN [m |-> q, e |-> j]
        ELSE Shortest(n, u, j + 1)

\* str() of the float pandas parsed: trailing zeros dropped, one fractional
\* digit kept; a cell of more significant digits than a float64 holds comes
\* back as the shortest digits of the nearest float64
RECURSIVE FloatStr(_)
FloatStr(d) ==
    IF d.hi # 0
    THEN LET s == Shortest(ToFloat(d), UlpInv(d.hi), 0)
             sg == IF d.hi < 0 THEN -1 ELSE 1
         IN  IF s.e = 0 THEN BigDec(d.hi, sg * s.m * 10, 1)
             ELSE BigDec(d.hi, sg * s.m, s.e)
    ELSE IF d.e = 0 THEN Dec(d.m * 10, 1)
    ELSE IF d.e > 1 /\ d.m % 10 = 0 THEN FloatStr(Dec(d.m \div 10, d.e - 1))
    ELSE d

\* read_csv infers one dtype per column: int64 when every cell is written
\* without a fraction, float64 otherwise; Decimal(str(cell)) follows
ParseCell(rows, col, i) ==
    LET cell(j) == IF col = "a" THEN rows[j].a
                   ELSE IF col = "b" THEN rows[j].b ELSE rows[j].result
    IN  IF \A j \in 1..Len(rows) : cell(j).e = 0 THEN cell(i)
        ELSE FloatStr(cell(i))

\* the list comprehension of load_history over df.iterrows()
ParseRows(rows) ==
    [i \in 1..Len(rows) |->
        HistoryItem(rows[i].operation, ParseCell(rows, "a", i),
                    ParseCell(rows, "b", i), ParseCell(rows, "result", i),
                    rows[i].timestamp)]

\* ------------------------------------------------------------------------
\* Inputs drawn by the actions
\* ------------------------------------------------------------------------
\* the (op_name, a, b) triples passed to calculate: two that succeed, a
\* zero divisor, a zero root degree, an unknown name, a non-numeric operand
CalcInputs ==
    { <<"Divide", Dec(3, 0), Dec(2, 0)>>,
      <<"root", Dec(3, 0), Dec(2, 0)>>,
      <<"Divide", Dec(3, 0), Dec(0, 0)>>,
      <<"root", Dec(3, 0), Dec(0, 0)>>,
      <<"sqrt", Dec(3, 0), Dec(2, 0)>>,
      <<"Divide", NonNumeric, Dec(2, 0)>> }

\* the calls of the save and load scenario: an operand of more digits than
\* are displayed (0.12345) and an operand of 12 integer digits and Precision
\* fractional digits (600000000000.0003), each added to a whole number
RoundTripInputs ==
    { <<"add", Dec(12345, 5), Dec(0, 0)>>,
      <<"add", BigDec(1, 3, 4), Dec(0, 0)>> }

\* the triples passed where the files or the observers vary: one that
\* succeeds and one that fails
SmallInputs ==
    { <<"Divide", Dec(3, 0), Dec(2, 0)>>,
      <<"Divide", Dec(3, 0), Dec(0, 0)>> }

\* the integer operands of the operation table
Operands == {Dec(i, 0) : i \in (0 - MaxOperand)..MaxOperand}

\* the names passed with the operation table: the registered names, two of
\* them in another case, and a name that is not registered
TableNames == (OperationMap \ {"root"}) \cup {"ADD", "Divide", "sqrt"}

\* the operation table: every name with every pair of operands, root with
\* the radicands and degrees RootApply covers and with a zero degree for
\* every radicand, and a non-numeric operand on either side
OpsInputs ==
    { <<n, a, b>> : n \in TableNames, a \in Operands, b \in Operands }
    \cup { <<n, Dec(a, 0), Dec(b, 0)>> : n \in {"root", "Root"},
                                        a \in 0..MaxOperand, b \in 1..2 }
    \cup { <<n, a, Dec(0, 0)>> : n \in {"root", "Root"},
                                a \in Operands \cup {NonNumeric} }
    \cup { <<n, NonNumeric, b>> : n \in TableNames, b \in {Dec(0, 0), Dec(2, 0)} }
    \cup { <<n, Dec(2, 0), NonNumeric>> : n \in TableNames }

\* the observer objects of a session: the two default observers created by
\* the constructor and an observer whose update always raises
ObserverIds == {"log", "autosave", "bad"}

\* observer objects whose update changes the observer list
DynObserverIds == {"log", "autosave", "adder", "remover"}

\* well-formed history files not written by this session
ExternalRow(i) ==
    [operation |-> "add", a |-> Dec(i, 0), b |-> Dec(1, 0),
     result |-> Dec(i + 1, 0), timestamp |-> 0 - i]

ExternalFiles ==
    { [exists |-> TRUE, rows |-> [i \in 1..n |-> ExternalRow(i)]] :
        n \in {MaxHistorySize + 1} }

\* ------------------------------------------------------------------------
\* State
\* ------------------------------------------------------------------------
VARIABLES
    history,    \* Calculator._history
    undo,       \* CalculatorCaretaker._undo, top last
    redo,       \* CalculatorCaretaker._redo, top last
    observers,  \* Calculator._observers
    file,       \* the CSV at CONFIG.history_file
    logOut,     \* the lines the logging observer has written
    clock,      \* datetime.now(), counted in calculate calls
    loads,      \* the load_history calls made so far
    last,       \* the last call: its name, arguments, outcome, deliveries
    prev,       \* the engine state at the start of the last call
    script,     \* the calls made since construction, as far as the
                \* scenarios of the tests follow them
    view,       \* the list a caller holds from the history property
    surplus     \* per observer: the notifications it received less the
                \* successful calculate calls made while it was registered

vars == <<history, undo, redo, observers, file, logOut, clock, loads,
          last, prev, script, view, surplus>>

\* the number of times x occurs in the sequence q
Count(q, x) == Cardinality({i \in 1..Len(q) : q[i] = x})

\* surplus after a call that delivered to the observers of d; ok tells
\* whether the call was a successful calculate, regs is the observer list
\* it found
SurplusAfter(sp, d, ok, regs) ==
    [o \in DOMAIN sp |->
        sp[o] + Count(d, o) - (IF ok /\ Count(regs, o) > 0 THEN 1 ELSE 0)]

NoArgs == [name |-> "", a |-> NonNumeric, b |-> NonNumeric]

NoRet == [kind |-> "none", val |-> Dec(0, 0), flag |-> FALSE]

BoolRet(f) == [kind |-> "bool", val |-> Dec(0, 0), flag |-> f]

Engine == [history |-> history, undo |-> undo, redo |-> redo,
           observers |-> observers, file |-> file, logOut |-> logOut]

Front(s) == SubSeq(s, 1, Len(s) - 1)

Top(s) == s[Len(s)]

\* list.remove: drops the first occurrence
RemoveFirst(s, x) ==
    LET idx == CHOOSE i \in 1..Len(s) : s[i] = x /\ \A j \in 1..(i - 1) : s[j] # x
    IN  SubSeq(s, 1, idx - 1) \o SubSeq(s, idx + 1, Len(s))

InSeq(s, x) == \E i \in 1..Len(s) : s[i] = x

\* ------------------------------------------------------------------------
\* CalculatorCaretaker (app/calculator_memento.py)
\* ------------------------------------------------------------------------
\* a caretaker value: the two stacks
Caretaker(u, r) == [undo |-> u, redo |-> r]

\* push_undo that leaves the redo stack as it is
PushUndoKeepRedo(c, m) == Caretaker(Append(c.undo, m), c.redo)

\* push_undo that caps the undo stack like the history
PushUndoCapped(c, m) ==
    LET u == Append(c.undo, m)
    IN  Caretaker(IF Len(u) > MaxHistorySize THEN Tail(u) ELSE u, << >>)

\* push_undo: append, then clear the redo stack
PushUndo(c, m) == Caretaker(Append(c.undo, m), << >>)

\* push_redo
PushRedo(c, m) == Caretaker(c.undo, Append(c.redo, m))

\* pop_undo: the popped memento, or None on an empty stack
PopUndo(c) ==
    IF c.undo # << >>
    THEN [none |-> FALSE, m |-> Top(c.undo), c |-> Caretaker(Front(c.undo), c.redo)]
    ELSE [none |-> TRUE, m |-> << >>, c |-> c]

\* pop_redo
PopRedo(c) ==
    IF c.redo # << >>
    THEN [none |-> FALSE, m |-> Top(c.redo), c |-> Caretaker(c.undo, Front(c.redo))]
    ELSE [none |-> TRUE, m |-> << >>, c |-> c]

\* ------------------------------------------------------------------------
\* Calculator (app/calculator.py), each method as a function of the engine
\* ------------------------------------------------------------------------
CaretakerOf(e) == Caretaker(e.undo, e.redo)

WithCaretaker(e, c) == [e EXCEPT !.undo = c.undo, !.redo = c.redo]

\* save_history that keeps a failed write to itself
SaveHistorySilent(e, wok) ==
    [eng |-> IF wok THEN [e EXCEPT !.file = CsvOf(e.history)] ELSE e,
     raised |-> FALSE]

\* save_history: the rows replace the file; a failed write raises and
\* leaves the file as it was
SaveHistory(e, wok) ==
    IF wok THEN [eng |-> [e EXCEPT !.file = CsvOf(e.history)], raised |-> FALSE]
    ELSE [eng |-> e, raised |-> TRUE]

\* load_history without the exists() test: a missing file reads as an
\* empty table
LoadHistoryNoCheck(e, f, rok) ==
    IF f.exists /\ ~rok THEN [eng |-> e, raised |-> TRUE]
    ELSE [eng |-> [e EXCEPT !.history = ParseRows(f.rows)], raised |-> FALSE]

\* load_history: a missing file returns at once; read_csv or the conversion
\* of a cell may raise, before _history is assigned; otherwise the parsed
\* rows replace the history
LoadHistory(e, f, rok) ==
    IF ~f.exists THEN [eng |-> e, raised |-> FALSE]
    ELSE IF ~rok THEN [eng |-> e, raised |-> TRUE]
    ELSE [eng |-> [e EXCEPT !.history = ParseRows(f.rows)], raised |-> FALSE]

\* the history property handing out the live list itself
HistoryPropertyLive(e) == [held |-> TRUE, items |-> e.history, alias |-> TRUE]

\* the history property: list(self._history), a new list object
HistoryProperty(e) == [held |-> TRUE, items |-> e.history, alias |-> FALSE]

\* no list handed out yet
NoView == [held |-> FALSE, items |-> << >>, alias |-> FALSE]

\* what a call does to the list a caller holds: nothing to a list of its
\* own; a list that is the live list shows the changes calculate and clear
\* make in place, and stops being the live list when _restore or
\* load_history bind a new one
ViewAfter(v, h2, inplace) ==
    IF ~v.alias THEN v
    ELSE IF inplace THEN [v EXCEPT !.items = h2]
    ELSE [v EXCEPT !.alias = FALSE]

\* the changes a caller makes to the list it holds
MutateList(q, m) ==
    CASE m = "append" -> Append(q, NoItem)
      [] m = "pop" -> IF q = << >> THEN q ELSE Front(q)
      [] m = "clear" -> << >>

\* add_observer without the membership test
AddObserverStepAlways(e, obs) == [e EXCEPT !.observers = Append(@, obs)]

\* add_observer
AddObserverStep(e, obs) ==
    IF InSeq(e.observers, obs) THEN e
    ELSE [e EXCEPT !.observers = Append(@, obs)]

\* remove_observer
RemoveObserverStep(e, obs) ==
    IF InSeq(e.observers, obs) THEN [e EXCEPT !.observers = RemoveFirst(@, obs)]
    ELSE e

\* Observer.update of each observer object; "adder" registers the logging
\* observer and "remover" unregisters the auto-save observer from inside
\* update
Update(obs, e, item, wok) ==
    CASE obs = "log" ->
            [eng |-> [e EXCEPT !.logOut = Append(@, [op |-> item.op, a |-> item.a,
                                                     b |-> item.b, result |-> item.result])],
             raised |-> FALSE]
      [] obs = "autosave" -> SaveHistory(e, wok)
      [] obs = "bad" -> [eng |-> e, raised |-> TRUE]
      [] obs = "adder" -> [eng |-> AddObserverStep(e, "log"), raised |-> FALSE]
      [] obs = "remover" -> [eng |-> RemoveObserverStep(e, "autosave"), raised |-> FALSE]

\* the loop of _notify without the try/except: the first exception of
\* update ends the loop and leaves _notify
RECURSIVE NotifyFromAbort(_, _, _, _, _)
NotifyFromAbort(st, copy, i, item, wok) ==
    IF i > Len(copy) THEN st
    ELSE LET obs == copy[i]
             up == Update(obs, st.eng, item, wok)
             st2 == [eng |-> up.eng, delivered |-> Append(st.delivered, obs),
                     raised |-> up.raised]
         IN  IF up.raised THEN st2
             ELSE NotifyFromAbort(st2, copy, i + 1, item, wok)

\* the loop of _notify over the live observer list instead of a copy
RECURSIVE NotifyFromLive(_, _, _, _, _)
NotifyFromLive(st, copy, i, item, wok) ==
    IF i > Len(st.eng.observers) THEN st
    ELSE LET obs == st.eng.observers[i]
             up == Update(obs, st.eng, item, wok)
         IN  NotifyFromLive([eng |-> up.eng, delivered |-> Append(st.delivered, obs),
                             raised |-> FALSE],
                            copy, i + 1, item, wok)

\* the loop of _notify over the copy of the observer list, from index i;
\* an exception of update is caught and the loop goes on
RECURSIVE NotifyFrom(_, _, _, _, _)
NotifyFrom(st, copy, i, item, wok) ==
    IF i > Len(copy) THEN st
    ELSE LET obs == copy[i]
             up == Update(obs, st.eng, item, wok)
         IN  NotifyFrom([eng |-> up.eng, delivered |-> Append(st.delivered, obs),
                         raised |-> FALSE],
                        copy, i + 1, item, wok)

\* _notify
Notify(e, item, wok) ==
    NotifyFrom([eng |-> e, delivered |-> << >>, raised |-> FALSE],
               e.observers, 1, item, wok)

\* a trim that drops the newest item: pop() for pop(0)
TrimNewest(h) == IF Len(h) > MaxHistorySize THEN Front(h) ELSE h

\* the trim of calculate: drop the oldest item of an oversized history
Trim(h) == IF Len(h) > MaxHistorySize THEN Tail(h) ELSE h

\* calculate whose snapshot shares the list of the live history: the
\* append and the trim show in every stored snapshot of that list
CalculateStepAliased(e, name, a, b, now, wok) ==
    LET r == Apply(name, a, b)
    IN  IF r.kind # "ok"
        THEN [eng |-> e, ret |-> [kind |-> r.kind, val |-> Dec(0, 0), flag |-> FALSE],
              delivered |-> << >>, item |-> HistoryItem(name, a, b, Dec(0, 0), now)]
        ELSE LET result == Round(r.raw)
                 item == HistoryItem(name, a, b, result, now)
                 h2 == Trim(Append(e.history, item))
                 c == PushUndo(CaretakerOf(e), e.history)
                 u2 == [i \in 1..Len(c.undo) |->
                          IF c.undo[i] = e.history THEN h2 ELSE c.undo[i]]
                 e1 == [e EXCEPT !.history = h2, !.undo = u2, !.redo = c.redo]
                 n == Notify(e1, item, wok)
             IN  [eng |-> n.eng, ret |-> [kind |-> "ok", val |-> result, flag |-> FALSE],
                  delivered |-> n.delivered, item |-> item]

\* calculate that stores the undo snapshot before it resolves and applies
\* the operation
CalculateStepEager(e, name, a, b, now, wok) ==
    LET r == Apply(name, a, b)
        c == PushUndo(CaretakerOf(e), Snapshot(e.history))
    IN  IF r.kind # "ok"
        THEN [eng |-> WithCaretaker(e, c),
              ret |-> [kind |-> r.kind, val |-> Dec(0, 0), flag |-> FALSE],
              delivered |-> << >>, item |-> HistoryItem(name, a, b, Dec(0, 0), now)]
        ELSE LET result == Round(r.raw)
                 item == HistoryItem(name, a, b, result, now)
                 e1 == [WithCaretaker(e, c) EXCEPT !.history = Trim(Append(e.history, item))]
                 n == Notify(e1, item, wok)
             IN  [eng |-> n.eng, ret |-> [kind |-> "ok", val |-> result, flag |-> FALSE],
                  delivered |-> n.delivered, item |-> item]

\* calculate that notifies the observers before it appends the record
CalculateStepNotifyFirst(e, name, a, b, now, wok) ==
    LET r == Apply(name, a, b)
    IN  IF r.kind # "ok"
        THEN [eng |-> e, ret |-> [kind |-> r.kind, val |-> Dec(0, 0), flag |-> FALSE],
              delivered |-> << >>, item |-> HistoryItem(name, a, b, Dec(0, 0), now)]
        ELSE LET result == Round(r.raw)
                 c == PushUndo(CaretakerOf(e), Snapshot(e.history))
                 item == HistoryItem(name, a, b, result, now)
                 n == Notify(WithCaretaker(e, c), item, wok)
             IN  [eng |-> [n.eng EXCEPT !.history = Trim(Append(e.history, item))],
                  ret |-> [kind |-> "ok", val |-> result, flag |-> FALSE],
                  delivered |-> n.delivered, item |-> item]

\* calculate that takes the undo snapshot after it appended and trimmed
CalculateStepLateSnapshot(e, name, a, b, now, wok) ==
    LET r == Apply(name, a, b)
    IN  IF r.kind # "ok"
        THEN [eng |-> e, ret |-> [kind |-> r.kind, val |-> Dec(0, 0), flag |-> FALSE],
              delivered |-> << >>, item |-> HistoryItem(name, a, b, Dec(0, 0), now)]
        ELSE LET result == Round(r.raw)
                 item == HistoryItem(name, a, b, result, now)
                 h2 == Trim(Append(e.history, item))
                 c == PushUndo(CaretakerOf(e), Snapshot(h2))
                 n == Notify([WithCaretaker(e, c) EXCEPT !.history = h2], item, wok)
             IN  [eng |-> n.eng, ret |-> [kind |-> "ok", val |-> result, flag |-> FALSE],
                  delivered |-> n.delivered, item |-> item]

\* calculate that records the registry key instead of the name it was
\* passed
CalculateStepStoresKey(e, name, a, b, now, wok) ==
    LET r == Apply(name, a, b)
    IN  IF r.kind # "ok"
        THEN [eng |-> e, ret |-> [kind |-> r.kind, val |-> Dec(0, 0), flag |-> FALSE],
              delivered |-> << >>, item |-> HistoryItem(name, a, b, Dec(0, 0), now)]
        ELSE LET result == Round(r.raw)
                 c == PushUndo(CaretakerOf(e), Snapshot(e.history))
                 item == HistoryItem(Lower(name), a, b, result, now)
                 e1 == [WithCaretaker(e, c) EXCEPT !.history = Trim(Append(e.history, item))]
                 n == Notify(e1, item, wok)
             IN  [eng |-> n.eng, ret |-> [kind |-> "ok", val |-> result, flag |-> FALSE],
                  delivered |-> n.delivered, item |-> item]

\* calculate
CalculateStep(e, name, a, b, now, wok) ==
    LET r == Apply(name, a, b)
    IN  IF r.kind # "ok"
        THEN [eng |-> e, ret |-> [kind |-> r.kind, val |-> Dec(0, 0), flag |-> FALSE],
              delivered |-> << >>, item |-> HistoryItem(name, a, b, Dec(0, 0), now)]
        ELSE LET result == Round(r.raw)
                 c == PushUndo(CaretakerOf(e), Snapshot(e.history))
                 item == HistoryItem(name, a, b, result, now)
                 e1 == [WithCaretaker(e, c) EXCEPT !.history = Trim(Append(e.history, item))]
                 n == Notify(e1, item, wok)
             IN  IF n.raised  \* an exception leaving _notify leaves calculate
                 THEN [eng |-> n.eng, ret |-> [kind |-> "ObserverError", val |-> Dec(0, 0), flag |-> FALSE],
                       delivered |-> n.delivered, item |-> item]
                 ELSE [eng |-> n.eng, ret |-> [kind |-> "ok", val |-> result, flag |-> FALSE],
                       delivered |-> n.delivered, item |-> item]

\* clear that stores no undo snapshot
ClearStepNoSnapshot(e) ==
    [eng |-> [e EXCEPT !.history = << >>], delivered |-> << >>]

\* clear that persists the emptied history when the auto-save observer is
\* registered
ClearStepSaving(e) ==
    LET c == IF e.history # << >> THEN PushUndo(CaretakerOf(e), Snapshot(e.history))
             ELSE CaretakerOf(e)
        e1 == [WithCaretaker(e, c) EXCEPT !.history = << >>]
    IN  IF InSeq(e.observers, "autosave")
        THEN [eng |-> SaveHistory(e1, TRUE).eng, delivered |-> <<"autosave">>]
        ELSE [eng |-> e1, delivered |-> << >>]

\* clear that pushes its snapshot whether or not there is a history
ClearStepAlwaysPush(e) ==
    LET c == PushUndo(CaretakerOf(e), Snapshot(e.history))
    IN  [eng |-> [WithCaretaker(e, c) EXCEPT !.history = << >>], delivered |-> << >>]

\* clear
ClearStep(e) ==
    LET c == IF e.history # << >> THEN PushUndo(CaretakerOf(e), Snapshot(e.history))
             ELSE CaretakerOf(e)
    IN  [eng |-> [WithCaretaker(e, c) EXCEPT !.history = << >>], delivered |-> << >>]

\* undo saving the current history for redo before it looks at the stack
UndoStepEager(e) ==
    LET c0 == PushRedo(CaretakerOf(e), Snapshot(e.history))
        p == PopUndo(c0)
    IN  IF p.none THEN [eng |-> WithCaretaker(e, c0), ret |-> FALSE]
        ELSE [eng |-> [WithCaretaker(e, p.c) EXCEPT !.history = GetState(p.m)],
              ret |-> TRUE]

\* undo that persists the restored history when the auto-save observer is
\* registered
UndoStepSaving(e) ==
    LET p == PopUndo(CaretakerOf(e))
    IN  IF p.none THEN [eng |-> e, ret |-> FALSE]
        ELSE LET c == PushRedo(p.c, Snapshot(e.history))
                 e2 == [WithCaretaker(e, c) EXCEPT !.history = GetState(p.m)]
             IN  [eng |-> IF InSeq(e.observers, "autosave") THEN SaveHistory(e2, TRUE).eng
                          ELSE e2,
                  ret |-> TRUE]

\* undo
UndoStep(e) ==
    LET p == PopUndo(CaretakerOf(e))
    IN  IF p.none THEN [eng |-> e, ret |-> FALSE]
        ELSE LET c == PushRedo(p.c, Snapshot(e.history))
             IN  [eng |-> [WithCaretaker(e, c) EXCEPT !.history = GetState(p.m)],
                  ret |-> TRUE]

\* redo that does not save the current history for undo
RedoStepNoPush(e) ==
    LET p == PopRedo(CaretakerOf(e))
    IN  IF p.none THEN [eng |-> e, ret |-> FALSE]
        ELSE [eng |-> [WithCaretaker(e, p.c) EXCEPT !.history = GetState(p.m)],
              ret |-> TRUE]

\* redo
RedoStep(e) ==
    LET p == PopRedo(CaretakerOf(e))
    IN  IF p.none THEN [eng |-> e, ret |-> FALSE]
        ELSE LET c == PushUndo(p.c, Snapshot(e.history))
             IN  [eng |-> [WithCaretaker(e, c) EXCEPT !.history = GetState(p.m)],
                  ret |-> TRUE]

\* ------------------------------------------------------------------------
\* The scenario of test_multi_step_undo_redo, followed from construction:
\* k successful calculate calls ("calc", made being the items they
\* created), then u undo calls ("undo"), then redo calls of which r returned
\* True ("redo") until one returns False ("done"); any other call leaves the
\* scenario ("off").  saved is the history just before the first undo.
\* ------------------------------------------------------------------------
ScriptInit ==
    [phase |-> "calc", k |-> 0, u |-> 0, r |-> 0, made |-> << >>, saved |-> << >>]

ScriptOff ==
    [phase |-> "off", k |-> 0, u |-> 0, r |-> 0, made |-> << >>, saved |-> << >>]

ScriptNext(sc, op, ok, item, before) ==
    CASE op = "calculate" /\ ok /\ sc.phase = "calc" ->
            [sc EXCEPT !.k = @ + 1, !.made = Append(@, item)]
      [] op = "undo" /\ sc.phase = "calc" /\ sc.k >= 1 ->
            [sc EXCEPT !.phase = "undo", !.u = 1, !.made = << >>, !.saved = before]
      [] op = "undo" /\ sc.phase = "undo" /\ sc.u <= sc.k -> [sc EXCEPT !.u = @ + 1]
      [] op = "redo" /\ sc.phase = "undo" /\ sc.u = sc.k ->
            [sc EXCEPT !.phase = IF ok THEN "redo" ELSE "done", !.r = IF ok THEN 1 ELSE 0]
      [] op = "redo" /\ sc.phase = "redo" ->
            [sc EXCEPT !.phase = IF ok THEN "redo" ELSE "done", !.r = IF ok THEN @ + 1 ELSE @]
      [] OTHER -> ScriptOff

\* ------------------------------------------------------------------------
\* Initial state: Calculator.__init__ with an absent history file
\* ------------------------------------------------------------------------
InitObservers == IF AutoSave THEN <<"log", "autosave">> ELSE <<"log">>

Init ==
    /\ history = << >>
    /\ undo = << >>
    /\ redo = << >>
    /\ observers = InitObservers
    /\ file = NoFile
    /\ logOut = << >>
    /\ clock = 0
    /\ loads = 0
    /\ last = [op |-> "init", args |-> NoArgs, ret |-> NoRet, delivered |-> << >>, io |-> "none"]
    /\ prev = [history |-> << >>, undo |-> << >>, redo |-> << >>,
               observers |-> InitObservers, file |-> NoFile, logOut |-> << >>]
    /\ script = ScriptInit
    /\ view = NoView
    /\ surplus = [o \in ObserverIds \cup DynObserverIds |-> 0]

\* the engine variables take the value e
Becomes(e) ==
    /\ history' = e.history
    /\ undo' = e.undo
    /\ redo' = e.redo
    /\ observers' = e.observers
    /\ file' = e.file
    /\ logOut' = e.logOut

\* ------------------------------------------------------------------------
\* Actions: one per public call
\* ------------------------------------------------------------------------
Calculate(name, a, b, wok) ==
    /\ view' = ViewAfter(view, CalculateStep(Engine, name, a, b, clock + 1, wok).eng.history, TRUE)
    /\ surplus' = LET s == CalculateStep(Engine, name, a, b, clock + 1, wok)
                   IN  SurplusAfter(surplus, s.delivered, s.ret.kind = "ok", observers)
    /\ clock < MaxCalls
    /\ LET s == CalculateStep(Engine, name, a, b, clock + 1, wok)
       IN  /\ Becomes(s.eng)
           /\ clock' = IF s.ret.kind = "ok" THEN clock + 1 ELSE clock
           /\ last' = [op |-> "calculate", args |-> [name |-> name, a |-> a, b |-> b],
                       ret |-> s.ret, delivered |-> s.delivered,
                       io |-> IF ~InSeq(s.delivered, "autosave") THEN "none"
                              ELSE IF wok THEN "ok" ELSE "fail"]
           /\ script' = ScriptNext(script, "calculate", s.ret.kind = "ok", s.item, history)
    /\ prev' = Engine
    /\ UNCHANGED loads

Clear ==
    /\ view' = ViewAfter(view, ClearStep(Engine).eng.history, TRUE)
    /\ surplus' = SurplusAfter(surplus, ClearStep(Engine).delivered, FALSE, observers)
    /\ Len(undo) < MaxUndo
    /\ LET s == ClearStep(Engine)
       IN  /\ Becomes(s.eng)
           /\ last' = [op |-> "clear", args |-> NoArgs, ret |-> NoRet,
                       delivered |-> s.delivered, io |-> "none"]
    /\ script' = ScriptNext(script, "clear", TRUE, NoItem, history)
    /\ prev' = Engine
    /\ UNCHANGED <<clock, loads>>

Undo ==
    /\ view' = ViewAfter(view, history, ~UndoStep(Engine).ret)
    /\ surplus' = surplus
    /\ LET s == UndoStep(Engine)
       IN  /\ Becomes(s.eng)
           /\ last' = [op |-> "undo", args |-> NoArgs, ret |-> BoolRet(s.ret),
                       delivered |-> << >>, io |-> "none"]
           /\ script' = ScriptNext(script, "undo", s.ret, NoItem, history)
    /\ prev' = Engine
    /\ UNCHANGED <<clock, loads>>

Redo ==
    /\ view' = ViewAfter(view, history, ~RedoStep(Engine).ret)
    /\ surplus' = surplus
    /\ LET s == RedoStep(Engine)
       IN  /\ Becomes(s.eng)
           /\ last' = [op |-> "redo", args |-> NoArgs, ret |-> BoolRet(s.ret),
                       delivered |-> << >>, io |-> "none"]
           /\ script' = ScriptNext(script, "redo", s.ret, NoItem, history)
    /\ prev' = Engine
    /\ UNCHANGED <<clock, loads>>

Save(wok) ==
    /\ view' = view
    /\ surplus' = surplus
    /\ LET s == SaveHistory(Engine, wok)
       IN  /\ Becomes(s.eng)
           /\ last' = [op |-> "save_history", args |-> NoArgs,
                       ret |-> IF s.raised
                               THEN [kind |-> "OSError", val |-> Dec(0, 0), flag |-> FALSE]
                               ELSE NoRet,
                       delivered |-> << >>, io |-> IF wok THEN "ok" ELSE "fail"]
    /\ script' = ScriptNext(script, "save_history", TRUE, NoItem, history)
    /\ prev' = Engine
    /\ UNCHANGED <<clock, loads>>

Load(f, rok) ==
    /\ loads < MaxLoads
    /\ LET s == LoadHistory(Engine, f, rok)
       IN  /\ Becomes(s.eng)
           /\ view' = ViewAfter(view, history, ~f.exists \/ s.raised)
           /\ surplus' = surplus
           /\ last' = [op |-> "load_history",
                       args |-> [NoArgs EXCEPT !.name = IF f = file THEN "history_file"
                                                       ELSE "other"],
                       ret |-> IF s.raised
                               THEN [kind |-> "OSError", val |-> Dec(0, 0), flag |-> FALSE]
                               ELSE NoRet,
                       delivered |-> << >>,
                       io |-> IF ~f.exists THEN "missing"
                              ELSE IF rok THEN "ok" ELSE "fail"]
    /\ script' = ScriptNext(script, "load_history", TRUE, NoItem, history)
    /\ prev' = Engine
    /\ loads' = loads + 1
    /\ UNCHANGED clock

AddObserver(obs) ==
    /\ view' = view
    /\ surplus' = surplus
    /\ Becomes(AddObserverStep(Engine, obs))
    /\ last' = [op |-> "add_observer", args |-> [NoArgs EXCEPT !.name = obs],
                ret |-> NoRet, delivered |-> << >>, io |-> "none"]
    /\ script' = ScriptNext(script, "add_observer", TRUE, NoItem, history)
    /\ prev' = Engine
    /\ UNCHANGED <<clock, loads>>

RemoveObserver(obs) ==
    /\ view' = view
    /\ surplus' = surplus
    /\ Becomes(RemoveObserverStep(Engine, obs))
    /\ last' = [op |-> "remove_observer", args |-> [NoArgs EXCEPT !.name = obs],
                ret |-> NoRet, delivered |-> << >>, io |-> "none"]
    /\ script' = ScriptNext(script, "remove_observer", TRUE, NoItem, history)
    /\ prev' = Engine
    /\ UNCHANGED <<clock, loads>>

\* a caller reads the history property
GetHistory ==
    /\ view' = HistoryProperty(Engine)
    /\ surplus' = surplus
    /\ last' = [op |-> "history", args |-> NoArgs, ret |-> NoRet, delivered |-> << >>, io |-> "none"]
    /\ script' = ScriptNext(script, "history", TRUE, NoItem, history)
    /\ prev' = Engine
    /\ UNCHANGED <<history, undo, redo, observers, file, logOut, clock, loads>>

\* a caller appends to, pops from or clears the list it holds
MutateView(m) ==
    /\ view.held
    /\ Len(view.items) <= MaxHistorySize
    /\ view' = [view EXCEPT !.items = MutateList(@, m)]
    /\ surplus' = surplus
    /\ history' = IF view.alias THEN MutateList(history, m) ELSE history
    /\ last' = [op |-> "mutate_view", args |-> [NoArgs EXCEPT !.name = m],
                ret |-> NoRet, delivered |-> << >>, io |-> "none"]
    /\ script' = ScriptNext(script, "mutate_view", TRUE, NoItem, history)
    /\ prev' = Engine
    /\ UNCHANGED <<undo, redo, observers, file, logOut, clock, loads>>

\* the engine with the observers the constructor registered
Next ==
    \/ \E in \in CalcInputs, wok \in BOOLEAN : Calculate(in[1], in[2], in[3], wok)
    \/ Clear
    \/ Undo
    \/ Redo

Spec == Init /\ [][Next]_vars

\* the engine with explicit saves and loads of history files
NextIO ==
    \/ \E in \in SmallInputs : Calculate(in[1], in[2], in[3], TRUE)
    \/ Clear
    \/ Undo
    \/ Redo
    \/ \E wok \in BOOLEAN : Save(wok)
    \/ \E f \in {file, NoFile} \cup ExternalFiles : Load(f, TRUE)

SpecIO == Init /\ [][NextIO]_vars

\* the engine with observers registered and unregistered between calls
NextObs ==
    \/ \E in \in SmallInputs, wok \in BOOLEAN : Calculate(in[1], in[2], in[3], wok)
    \/ Undo
    \/ Redo
    \/ \E obs \in ObserverIds : AddObserver(obs)
    \/ \E obs \in ObserverIds : RemoveObserver(obs)

SpecObs == Init /\ [][NextObs]_vars

\* the engine with writes and reads that may fail
NextPersist ==
    \/ \E in \in SmallInputs, wok \in BOOLEAN : Calculate(in[1], in[2], in[3], wok)
    \/ Clear
    \/ \E wok \in BOOLEAN : Save(wok)
    \/ \E f \in {file, NoFile} \cup ExternalFiles, rok \in BOOLEAN : Load(f, rok)

SpecPersist == Init /\ [][NextPersist]_vars

\* a Calculator taken through the operation table: calls until the first
\* one that succeeds, as the cases of test_all_operations, then undo
NextOps ==
    \/ \E in \in OpsInputs : clock = 0 /\ Calculate(in[1], in[2], in[3], TRUE)
    \/ Undo

SpecOps == Init /\ [][NextOps]_vars

\* the engine saving its history and loading it back
NextRT ==
    \/ \E in \in RoundTripInputs : Calculate(in[1], in[2], in[3], TRUE)
    \/ Clear
    \/ Undo
    \/ Redo
    \/ Save(TRUE)
    \/ Load(file, TRUE)

SpecRT == Init /\ [][NextRT]_vars

\* the engine with a caller that keeps and changes the list it was handed
NextView ==
    \/ \E in \in SmallInputs : Calculate(in[1], in[2], in[3], TRUE)
    \/ Clear
    \/ Undo
    \/ GetHistory
    \/ \E m \in {"append", "pop", "clear"} : MutateView(m)

SpecView == Init /\ [][NextView]_vars

\* the engine with observers that register and unregister during dispatch
NextDyn ==
    \/ \E in \in SmallInputs : Calculate(in[1], in[2], in[3], TRUE)
    \/ \E obs \in DynObserverIds : AddObserver(obs)
    \/ \E obs \in DynObserverIds : RemoveObserver(obs)

SpecDyn == Init /\ [][NextDyn]_vars

\* ------------------------------------------------------------------------
\* Properties
\* ------------------------------------------------------------------------
\* the last n elements of a sequence
LastN(q, n) == SubSeq(q, Len(q) - n + 1, Len(q))

CalculateOk == last.op = "calculate" /\ last.ret.kind = "ok"

\* C1: from a fresh Calculator, K successful calculate calls
\* (K <= max_history_size), K undo calls, then redo until it returns False
\* give exactly K successful redos and the history of before the first undo.
C1_RedoRoundTrip ==
    (script.phase = "done" /\ script.k <= MaxHistorySize)
        => (script.r = script.k /\ history = script.saved)

\* C2: a redo that succeeds removes exactly the top entry of the redo stack,
\* leaving the deeper entries in place and in order, and pushes one snapshot
\* of the pre-redo history onto the undo stack.
C2_RedoPreservesDeeper ==
    (last.op = "redo" /\ last.ret.flag)
        => (redo = Front(prev.redo) /\ undo = Append(prev.undo, Snapshot(prev.history)))

\* C3: a calculate that raises for an unknown operation name or an invalid
\* operand leaves the history, the undo stack and the redo stack as they
\* were and notifies no observer.
C3_FailedCalculateAtomic ==
    (last.op = "calculate" /\ last.ret.kind \in {"OperationError", "ValidationError"})
        => /\ history = prev.history
           /\ undo = prev.undo
           /\ redo = prev.redo
           /\ last.delivered = << >>
           /\ file = prev.file
           /\ logOut = prev.logOut

\* a calculate failed on a zero divisor or degree while redo entries existed
C3_Witness ==
    /\ last.op = "calculate"
    /\ last.ret.kind = "ValidationError"
    /\ last.args.b = Dec(0, 0)
    /\ redo # << >>
    /\ history # << >>

\* C4: right after a successful calculate, and after a clear of a non-empty
\* history, the redo stack is empty, and a redo that follows returns False
\* and changes nothing.
NewAction == CalculateOk \/ (last.op = "clear" /\ prev.history # << >>)

C4_NewActionInvalidatesRedo ==
    /\ [](NewAction => redo = << >>)
    /\ [][(NewAction /\ last'.op = "redo")
            => (~last'.ret.flag /\ history' = history /\ undo' = undo /\ redo' = redo)]_vars

\* a redo found nothing to redo right after a calculate that followed an undo
C4_Witness ==
    /\ last.op = "redo"
    /\ ~last.ret.flag
    /\ script.phase = "off"
    /\ Len(history) = 1
    /\ Len(undo) = 1
    /\ history[1].ts = 2

\* C5: from a fresh Calculator, after N successful calculate calls and
\* nothing else the history is the most recent min(N, max_history_size)
\* items in chronological order.
C5_FifoCap ==
    script.phase = "calc"
        => /\ Len(script.made) = script.k
           /\ history = LastN(script.made, Min2(script.k, MaxHistorySize))

\* more calculate calls than the history holds: the oldest item is gone
C5_Witness ==
    /\ script.phase = "calc"
    /\ script.k > MaxHistorySize
    /\ history[1] = script.made[script.k - MaxHistorySize + 1]

\* C6: after any sequence of calculate, clear, undo, redo, save_history and
\* load_history of well-formed files the history never holds more than
\* max_history_size items.
C6_HistoryBounded == Len(history) <= MaxHistorySize

\* C7: from a fresh Calculator, after K successful calculate calls, K undo
\* calls all return True and leave the history empty, and one more undo
\* returns False and changes nothing.
C7_UndoAll ==
    script.phase = "undo"
        => /\ script.u <= script.k => last.ret.flag
           /\ script.u = script.k => history = << >>
           /\ script.u = script.k + 1
                => (~last.ret.flag /\ history = prev.history
                    /\ undo = prev.undo /\ redo = prev.redo)

\* every one of more calculate calls than the history holds was undone, and
\* a further undo found nothing
C7_Witness ==
    /\ script.phase = "undo"
    /\ script.k > MaxHistorySize
    /\ script.u = script.k + 1
    /\ history = << >>
    /\ Len(redo) = script.k

\* C8: clear empties the history, and an undo right after a clear of a
\* non-empty history H returns True and restores exactly H.
C8_ClearUndoRoundTrip ==
    /\ [](last.op = "clear" => history = << >>)
    /\ [][(last.op = "clear" /\ prev.history # << >> /\ last'.op = "undo")
            => (last'.ret.flag /\ history' = prev.history)]_vars

\* an undo brought a full history back from the empty history a clear left
C8_Witness ==
    /\ last.op = "undo"
    /\ last.ret.flag
    /\ prev.history = << >>
    /\ Len(history) = MaxHistorySize
    /\ Top(redo) = << >>

\* C9: clear notifies no observer, so the persisted history file and the
\* log are the same before and after it.
C9_ClearSkipsNotify ==
    last.op = "clear"
        => (last.delivered = << >> /\ file = prev.file /\ logOut = prev.logOut)

\* a non-empty history was cleared with the auto-save observer registered
\* and the file still holds the rows
C9_Witness ==
    /\ last.op = "clear"
    /\ InSeq(observers, "autosave")
    /\ prev.history # << >>
    /\ file = CsvOf(prev.history)

\* C10: with an observer registered whose update always raises, a calculate
\* with a valid operation and operands returns its result, appends the item,
\* pushes the undo snapshot, and notifies every registered observer.
C10_ObserverFailureIsolated ==
    (/\ last.op = "calculate"
     /\ InSeq(prev.observers, "bad")
     /\ Apply(last.args.name, last.args.a, last.args.b).kind = "ok")
        => /\ last.ret.kind = "ok"
           /\ last.ret.val = Round(Apply(last.args.name, last.args.a, last.args.b).raw)
           /\ history # << >>
           /\ Top(history).op = last.args.name
           /\ Top(history).result = last.ret.val
           /\ Front(history) = LastN(prev.history, Len(history) - 1)
           /\ undo = Append(prev.undo, Snapshot(prev.history))
           /\ last.delivered = prev.observers

\* a second calculate succeeded, and auto-save wrote the file, with the
\* raising observer registered ahead of the auto-save observer
C10_Witness ==
    /\ CalculateOk
    /\ clock >= 2
    /\ \E i, j \in 1..Len(last.delivered) :
          i < j /\ last.delivered[i] = "bad" /\ last.delivered[j] = "autosave"
    /\ file = CsvOf(history)
    /\ prev.file # file

\* C11: a successful calculate notifies every observer registered when the
\* dispatch starts exactly once, in registration order; an observer added
\* during the dispatch is not notified in that round and one removed during
\* the dispatch still is.
C11_DispatchSnapshot == CalculateOk => last.delivered = prev.observers

\* in one round an observer was removed after it was captured and still
\* notified, and another was added and not notified
C11_Witness ==
    /\ CalculateOk
    /\ \E i \in 1..Len(last.delivered) : ~InSeq(observers, last.delivered[i])
    /\ \E i \in 1..Len(observers) : ~InSeq(last.delivered, observers[i])

NoDuplicates(q) == \A i, j \in 1..Len(q) : i # j => q[i] # q[j]

\* C12: the observer list never holds an observer twice; add_observer of a
\* registered observer changes nothing and a new one goes to the end, so no
\* observer is notified twice in a round; remove_observer of an observer
\* that is not registered changes nothing.
C12_ObserversDuplicateFree ==
    /\ NoDuplicates(observers)
    /\ NoDuplicates(last.delivered)
    /\ last.op = "add_observer"
         => /\ InSeq(prev.observers, last.args.name) => observers = prev.observers
            /\ ~InSeq(prev.observers, last.args.name)
                 => observers = Append(prev.observers, last.args.name)
    /\ (last.op = "remove_observer" /\ ~InSeq(prev.observers, last.args.name))
         => (observers = prev.observers /\ last.ret.kind = "none")

\* an observer that was registered, and not the last one, was added again
C12_Witness ==
    /\ last.op = "add_observer"
    /\ Len(prev.observers) >= 2
    /\ prev.observers[1] = last.args.name
    /\ observers = prev.observers

\* the entries two stacks have in common, position by position, are equal
SamePrefix(p, q) == \A i \in 1..Min2(Len(p), Len(q)) : p[i] = q[i]

\* C13: a snapshot on the undo or the redo stack keeps its content for as
\* long as it is there, whatever calculate, clear, undo, redo or
\* load_history do to the live history, also after a restore.
C13_SnapshotsStable ==
    [][SamePrefix(undo, undo') /\ SamePrefix(redo, redo')]_vars

\* after a restore by undo, a calculate changed the restored history and
\* the snapshots below the new one are the ones that were there
C13_Witness ==
    /\ CalculateOk
    /\ prev.redo # << >>
    /\ prev.history # << >>
    /\ Len(prev.undo) >= 1
    /\ Front(undo) = prev.undo
    /\ Top(undo) = prev.history
    /\ history # prev.history

\* C14: the list the history property returns is the caller's own: changing
\* it leaves the history, the undo stack and the redo stack as they were,
\* and no later engine call changes a list returned earlier.
C14_HistoryViewIndependent ==
    /\ [](last.op = "history" => (view.items = history /\ history = prev.history))
    /\ [](last.op = "mutate_view"
            => (history = prev.history /\ undo = prev.undo /\ redo = prev.redo))
    /\ [][last'.op \notin {"history", "mutate_view"} => view' = view]_vars

\* the caller emptied the list it held while the engine keeps its history
C14_Witness ==
    /\ last.op = "mutate_view"
    /\ last.args.name = "clear"
    /\ view.items = << >>
    /\ Len(history) = MaxHistorySize
    /\ undo # << >>

\* C15: every call that changes the history (calculate, clear, load_history)
\* first pushes the history it found onto the undo stack, so that the undo
\* that follows restores it.
C15_MutationPushesSnapshot ==
    (last.op \in {"calculate", "clear", "load_history"} /\ history # prev.history)
        => (undo # << >> /\ Top(undo) = prev.history)

\* C16: undo on an empty undo stack and redo on an empty redo stack return
\* False, raise nothing and leave history, undo stack and redo stack as they
\* were; undo and redo return True exactly when their stack was not empty.
C16_EmptyStackBoundary ==
    /\ last.op = "undo" =>
          /\ last.ret.kind = "bool"
          /\ last.ret.flag <=> (prev.undo # << >>)
          /\ prev.undo = << >> =>
                (history = prev.history /\ undo = prev.undo /\ redo = prev.redo)
    /\ last.op = "redo" =>
          /\ last.ret.kind = "bool"
          /\ last.ret.flag <=> (prev.redo # << >>)
          /\ prev.redo = << >> =>
                (history = prev.history /\ undo = prev.undo /\ redo = prev.redo)

\* undo found its stack empty while there was a history and a redo stack to
\* keep
C16_Witness ==
    /\ last.op = "undo"
    /\ ~last.ret.flag
    /\ prev.undo = << >>
    /\ history # << >>
    /\ redo # << >>

\* C17: with the auto-save observer registered and the write succeeding,
\* when calculate returns the file holds exactly the current history, capped
\* and with the new record last: the record is in the history before it is
\* written.
C17_AutoSaveAfterAppend ==
    (CalculateOk /\ InSeq(prev.observers, "autosave") /\ last.io # "fail")
        => /\ last.io = "ok"
           /\ history # << >>
           /\ Top(history).ts = clock
           /\ Top(history).op = last.args.name
           /\ file = CsvOf(history)

\* an auto-save of a history that was full, over an older file
C17_Witness ==
    /\ CalculateOk
    /\ last.io = "ok"
    /\ Len(prev.history) = MaxHistorySize
    /\ prev.file.exists
    /\ file # prev.file
    /\ file = CsvOf(history)

\* C19: load_history of a path that does not exist raises nothing and leaves
\* history, undo stack and redo stack as they were.
C19_LoadMissingNoOp ==
    (last.op = "load_history" /\ last.io = "missing")
        => /\ last.ret.kind = "none"
           /\ history = prev.history
           /\ undo = prev.undo
           /\ redo = prev.redo

\* a missing file loaded into a Calculator that has a history and both stacks
C19_Witness ==
    /\ last.op = "load_history"
    /\ last.io = "missing"
    /\ history # << >>
    /\ undo # << >>
    /\ redo # << >>

SameRecord(loaded, saved) ==
    /\ loaded.op = saved.op
    /\ DecEq(loaded.a, Round(ToRat(saved.a)))
    /\ DecEq(loaded.b, Round(ToRat(saved.b)))
    /\ DecEq(loaded.result, Round(ToRat(saved.result)))

\* C18: a history built by calculate, undo, redo and clear, saved and loaded
\* back, has the same length and order, the same operation names, and
\* operands and results equal to the saved ones after display rounding.
C18_SaveLoadRoundTrip ==
    (/\ last.op = "load_history"
     /\ last.args.name = "history_file"
     /\ last.io = "ok"
     /\ prev.file = CsvOf(prev.history))
        => /\ Len(history) = Len(prev.history)
           /\ \A i \in 1..Len(history) : SameRecord(history[i], prev.history[i])

\* C21: divide, int_divide and root with a zero right operand fail with
\* ValidationError whatever the left operand is; no value is returned and
\* no history entry recorded.
C21_ZeroDivisorRejected ==
    (/\ last.op = "calculate"
     /\ Lower(last.args.name) \in {"divide", "int_divide", "root"}
     /\ IsNum(last.args.b)
     /\ IsZero(last.args.b))
        => /\ last.ret.kind = "ValidationError"
           /\ history = prev.history
           /\ undo = prev.undo
           /\ redo = prev.redo
           /\ last.delivered = << >>

\* int_divide of a negative number by zero was refused
C21_Witness ==
    /\ last.op = "calculate"
    /\ last.args.name = "int_divide"
    /\ IsNum(last.args.a)
    /\ last.args.a.m < 0
    /\ IsZero(last.args.b)
    /\ last.ret.kind = "ValidationError"
    /\ history = << >>

\* C22: every failure of calculate is a CalculatorError: OperationError for
\* an unknown name, ValidationError for a non-numeric or out-of-domain
\* operand, a zero right operand of modulus and percent included; any other
\* call returns a result.
C22_FailuresInTaxonomy ==
    last.op = "calculate" =>
        /\ last.ret.kind \in {"ok", "OperationError", "ValidationError"}
        /\ last.ret.kind = "OperationError" <=> Lower(last.args.name) \notin OperationMap
        /\ (/\ Lower(last.args.name) \in {"modulus", "percent"}
            /\ IsNum(last.args.a) /\ IsNum(last.args.b) /\ IsZero(last.args.b))
              => last.ret.kind = "ValidationError"

\* the quotient of integers rounded toward minus infinity
FloorDiv(a, b) == IF b > 0 THEN a \div b ELSE (0 - a) \div (0 - b)

\* where the operation is defined on integers a and b
Defined(key, a, b) ==
    CASE key \in {"divide", "modulus", "int_divide", "percent"} -> b # 0
      [] key = "power" -> ~(a = 0 /\ b <= 0)
      [] OTHER -> TRUE

\* the mathematical result on integers a and b, as a fraction n / d, d > 0
MathResult(key, a, b) ==
    LET sb == IF b < 0 THEN -1 ELSE 1
        sp == IF a < 0 /\ b % 2 = 1 THEN -1 ELSE 1
    IN  CASE key = "add" -> [n |-> a + b, d |-> 1]
          [] key = "subtract" -> [n |-> a - b, d |-> 1]
          [] key = "multiply" -> [n |-> a * b, d |-> 1]
          [] key = "divide" -> [n |-> sb * a, d |-> sb * b]
          [] key = "power" -> IF b >= 0 THEN [n |-> Pow(a, b), d |-> 1]
                              ELSE [n |-> sp, d |-> sp * Pow(a, 0 - b)]
          [] key = "modulus" -> [n |-> a - b * FloorDiv(a, b), d |-> 1]
          [] key = "int_divide" -> [n |-> FloorDiv(a, b), d |-> 1]
          [] key = "percent" -> [n |-> sb * a * 100, d |-> sb * b]
          [] key = "abs_diff" -> [n |-> Abs(a - b), d |-> 1]

\* m / 10^Precision is x.n / x.d rounded to Precision fractional digits, a
\* tie going away from zero
HalfUpOf(m, x) ==
    LET p == Pow(10, Precision)
    IN  /\ (x.n >= 0 => m >= 0) /\ (x.n <= 0 => m <= 0)
        /\ 2 * x.d * Abs(m) <= 2 * Abs(x.n) * p + x.d
        /\ 2 * Abs(x.n) * p + x.d < 2 * x.d * (Abs(m) + 1)

\* C23: for every registered name but root, in either case, and every pair
\* of integer operands on which the operation is defined, calculate returns
\* the mathematical result rounded half-up to Precision fractional digits.
C23_MathematicalResult ==
    (/\ last.op = "calculate"
     /\ Lower(last.args.name) \in OperationMap \ {"root"}
     /\ IsNum(last.args.a) /\ IsNum(last.args.b)
     /\ Defined(Lower(last.args.name), last.args.a.m, last.args.b.m))
        => /\ last.ret.kind = "ok"
           /\ last.ret.val.e = Precision
           /\ HalfUpOf(last.ret.val.m,
                       MathResult(Lower(last.args.name), last.args.a.m, last.args.b.m))

\* C24: an undo right after a successful calculate returns True and restores
\* the history the calculate found, the oldest record included when the
\* calculate evicted it.
C24_CalculateUndoRoundTrip ==
    [][(CalculateOk /\ last'.op = "undo")
          => (last'.ret.flag /\ history' = prev.history)]_vars

\* an undo brought back the record that the calculate before it had evicted
C24_Witness ==
    /\ last.op = "undo"
    /\ last.ret.flag
    /\ Len(history) = MaxHistorySize
    /\ Len(prev.history) = MaxHistorySize
    /\ ~InSeq(prev.history, history[1])
    /\ Top(prev.history).ts = clock
    /\ Tail(history) = Front(prev.history)

\* C25: clear on an empty history changes nothing: it pushes nothing onto
\* the undo stack and leaves the redo stack alone, so that a redo after
\* calculate, undo, clear still returns True and brings the record back.
C25_ClearEmptyNoOp ==
    /\ []((last.op = "clear" /\ prev.history = << >>) => Engine = prev)
    /\ [][(/\ last.op = "clear" /\ prev.history = << >>
           /\ redo # << >> /\ last'.op = "redo")
              => (last'.ret.flag /\ history' = Top(redo))]_vars

\* clear found the history empty after an undo, the undone record waiting
\* on the redo stack
C25_Witness ==
    /\ last.op = "clear"
    /\ prev.history = << >>
    /\ redo # << >>
    /\ Top(redo) # << >>
    /\ undo = prev.undo

\* C26: with a non-empty undo stack, undo and then redo both return True and
\* leave the history and the undo stack as they were before the undo.
C26_UndoRedoIdentity ==
    /\ []((last.op = "undo" /\ prev.undo # << >>) => last.ret.flag)
    /\ [][(last.op = "undo" /\ last.ret.flag /\ last'.op = "redo")
              => /\ last'.ret.flag
                 /\ history' = prev.history
                 /\ undo' = prev.undo]_vars

\* a redo put back a history and an undo stack of two snapshots
C26_Witness ==
    /\ last.op = "redo"
    /\ last.ret.flag
    /\ Len(undo) >= 2
    /\ history # << >>
    /\ history # prev.history
    /\ Top(undo) = prev.history

\* C27: undo and redo notify no observer: they leave the file, the log
\* output and the observer list as they were; only a successful calculate
\* notifies, so every observer has received as many notifications as there
\* were successful calculate calls while it was registered.
C27_OnlyCalculateNotifies ==
    /\ last.op \in {"undo", "redo"}
          => /\ file = prev.file
             /\ logOut = prev.logOut
             /\ observers = prev.observers
             /\ last.delivered = << >>
    /\ \A o \in DOMAIN surplus : surplus[o] = 0
    /\ last.delivered # << >> => CalculateOk

\* an undo changed the history and left an older file alone, after calls
\* that notified a changing list of observers
C27_Witness ==
    /\ last.op = "undo"
    /\ last.ret.flag
    /\ history # prev.history
    /\ file.exists
    /\ file # CsvOf(history)
    /\ clock >= 2
    /\ InSeq(observers, "bad")
    /\ ~InSeq(observers, "autosave")

\* C28: when a successful calculate returns, the last element of the history
\* is the record it created, with the name and the operands as passed and
\* the result it returns, and the observers were handed that record; the
\* trim does not evict it.
C28_NewRecordLast ==
    CalculateOk =>
        /\ history # << >>
        /\ Top(history) = HistoryItem(last.args.name, last.args.a, last.args.b,
                                      last.ret.val, clock)
        /\ last.ret.val.e = Precision
        /\ InSeq(last.delivered, "log")
              => (/\ logOut # << >>
                  /\ Top(logOut) = [op |-> last.args.name, a |-> last.args.a,
                                    b |-> last.args.b, result |-> last.ret.val])

\* a calculate on a full history, its name passed in another case than the
\* registry's
C28_Witness ==
    /\ CalculateOk
    /\ Len(prev.history) = MaxHistorySize
    /\ Len(history) = MaxHistorySize
    /\ last.args.name = "Divide"
    /\ InSeq(last.delivered, "log")
    /\ Top(history).ts = clock

====
